---- MODULE Spec2Model ----
(***************************************************************************)
(* Data generator: the POST /generate endpoint (single-response and        *)
(* streaming mode), the AI mock-data generator with its batching / retry   *)
(* loop, and the real-data fetcher, modelled as one request life cycle.    *)
(*                                                                         *)
(* One step of the model is one run of JavaScript between two awaits: the  *)
(* event loop runs a continuation to its next await without interleaving,  *)
(* so everything a handler does between awaits is one action.              *)
(***************************************************************************)
EXTENDS Integers, Sequences, FiniteSets, TLC

VARIABLES
    pc,         \* position of the request handler
    req,        \* the incoming request: mode, body, dataType, prompt, rows
    apiKey,     \* a generative-AI credential is configured
    timeoutId,  \* POST's request-wide timer: "null", "armed", "fired", "cleared"
    aborted,    \* controller.signal.aborted
    rowCount,   \* the row count the endpoint computed (0 before validation)
    gen,        \* frame of generateMockData / generateMockDataInBatches
    genOut,     \* outcome of the latest generateMockData call
    real,       \* frame of fetchRealData
    call,       \* the external call in flight and whether a timer races it
    response,   \* what POST gave back
    events,     \* status of each line enqueued on the stream
    stream,     \* frame of streamMockDataGeneration and the stream itself
    invoked,    \* which of generateMockData / fetchRealData were called
    dl,         \* POST /download: the request, the handler's position, the
                \* response and the name the form saves the file under
    obs,        \* what a mock generation leaves behind in the event loop: the
                \* model calls issued, the attempt timers still armed and the
                \* model calls still in flight after their attempt was over
    wx,         \* frame of fetchWeatherData
    kw,         \* fallbackCategorization: its prompt and its result
    peers       \* the frames of two generations running at the same time

vars == <<pc, req, apiKey, timeoutId, aborted, rowCount, gen, genOut, real,
          call, response, events, stream, invoked, dl, obs, wx, kw, peers>>

\* The state of one POST /generate request, and what lies outside it.
generateVars ==
    <<pc, req, apiKey, timeoutId, aborted, rowCount, gen, genOut, real, call,
      response, events, stream, invoked>>
auxVars == <<dl, wx, kw, peers>>

-----------------------------------------------------------------------------
(* Program constants *)

MaxRowsSingle == 50        \* route.ts:52
MaxRowsStream == 100       \* route.ts:178
MaxRowsGenerator == 50     \* part_003:56
DefaultRows == 10          \* route.ts:52, part_003:56
TruncateChars == 200        \* part_003:154
BatchThreshold == 15       \* part_003:62
ComplexBatchSize == 5      \* part_003:119
SimpleBatchSize == 10      \* part_003:119
maxRetries == 2            \* part_003:135
StreamBatchSize == 5       \* route.ts:223
SingleCallTimeoutMs == 20000   \* part_003:69
BatchTimeoutMs == 25000    \* part_003:141
RetryPauseMs == 1000       \* part_003:185
BatchPauseMs == 500        \* part_003:233

(* Bounds of the model *)

\* Batches (of one request) whose model response is arbitrary; the model
\* answers the batches after them with the rows it was asked for.
DivergentBatches == 2
\* Generation failures the environment injects into one stream.
MaxStreamErrors == 2
\* Items an external data API returns at most.
MaxPayload == 2
\* Cells of a row of a download request.
MaxCells == 2
\* Characters of the prompts of a download request that are enumerated in
\* full; longer prompts are a few fixed ones.
ShortPromptChars == 20      \* length of a prompt of at most 200 characters
LongPromptChars == 250      \* length of a prompt of more than 200 characters
MaxLateTimers == 2          \* attempt timers followed after their attempt
MaxAbandoned == 2           \* model calls followed after their timer won
MaxPromptLen == 2

-----------------------------------------------------------------------------
(* Helpers *)

Range(s) == {s[j] : j \in 1..Len(s)}
Min(a, b) == IF a < b THEN a ELSE b
Max(a, b) == IF a > b THEN a ELSE b
CeilDiv(a, b) == (a + b - 1) \div b

-----------------------------------------------------------------------------
(* Inputs *)

\* `rows` of the request body.  A number is kept as its integer part
\* (towards zero) and whether a fraction follows it; "str" is a string that
\* does not start with a number; "missing" is undefined.
RowsNumber(whole, frac) == [t |-> "num", whole |-> whole, frac |-> frac]
RowsMissing == [t |-> "missing", whole |-> 0, frac |-> FALSE]
RowsText == [t |-> "str", whole |-> 0, frac |-> FALSE]
RowsInputs ==
    {RowsMissing, RowsText}
    \cup {RowsNumber(n, FALSE) : n \in {0 - 5, 0, 3, 16, 10000}}
    \cup {RowsNumber(n, TRUE) : n \in {0, 2}}

\* `prompt` of the request body: what the validation, the routing and the
\* keyword heuristic read of it.  words: the keywords its lower-cased text
\* contains; long: it has more than 200 characters.
Prompt(kind, words, long) == [kind |-> kind, words |-> words, long |-> long]
PromptWords == {{}, {"fine-tune"}, {"custom"}, {"bitcoin"}}
Prompts ==
    {Prompt(k, {}, FALSE) : k \in {"missing", "nonstring", "blank"}}
    \cup {Prompt("text", w, FALSE) : w \in PromptWords}
    \cup {Prompt("text", {}, TRUE)}

Requests ==
    [streaming : BOOLEAN, bodyOk : BOOLEAN, dataType : {"mock", "real"},
     prompt : Prompts, rows : RowsInputs]

NoRequest ==
    [streaming |-> FALSE, bodyOk |-> FALSE, dataType |-> "real",
     prompt |-> Prompt("missing", {}, FALSE), rows |-> RowsMissing]

-----------------------------------------------------------------------------
(* Numbers: a JavaScript number is [nan, v] *)

Num(v) == [nan |-> FALSE, v |-> v]
NaN == [nan |-> TRUE, v |-> 0]

\* parseInt(rows): the leading integer of String(rows), NaN when there is none.
parseInt(rows) == IF rows.t = "num" THEN Num(rows.whole) ELSE NaN

\* x || d: d when x is falsy (NaN or 0).
OrDefault(x, d) == IF x.nan \/ x.v = 0 THEN Num(d) ELSE x

\* The clamp without its Math.min.
ClampRowsNoUpper(rows, limit) ==
    LET n == OrDefault(parseInt(rows), DefaultRows)
    IN  IF n.nan THEN NaN ELSE Num(Max(1, n.v))

\* route.ts:52, :178: Math.min(Math.max(1, parseInt(rows) || 10), limit);
\* NaN stays NaN.
ClampRows(rows, limit) ==
    LET n == OrDefault(parseInt(rows), DefaultRows)
    IN  IF n.nan THEN NaN ELSE Num(Min(Max(1, n.v), limit))

-----------------------------------------------------------------------------
(* Error messages: a message is a sequence of tokens [t, n]; t names a fixed *)
(* piece of text and n the number printed in it (0 when there is none).      *)

Tok(t, n) == [t |-> t, n |-> n]
Msg(t, n) == <<Tok(t, n)>>

\* The fixed texts that contain the word "timeout" (part_003:69, :141); no
\* fixed text contains "aborted".
TimeoutTexts == {"Request timeout - Gemini is processing",
                 "Batch timeout - Gemini is processing"}
IncludesTimeout(msg) == \E j \in 1..Len(msg) : msg[j].t \in TimeoutTexts

\* The texts that contain the word "aborted": a message of the provider's.
AbortedTexts == {"provider error: the operation was aborted"}
IncludesAborted(msg) == \E j \in 1..Len(msg) : msg[j].t \in AbortedTexts

ConfigError == Msg("Gemini API key not configured", 0)
SingleTimeoutError == Msg("Request timeout - Gemini is processing", 0)
BatchTimeoutError(i) == Msg("Batch timeout - Gemini is processing", i + 1)
ProviderError == Msg("provider error", 0)
ProviderAbortError == Msg("provider error: the operation was aborted", 0)
\* What a rejected model call can carry: the provider words the message.
ProviderErrors == {ProviderError, ProviderAbortError}
EmptyDataError == Msg("Failed to generate mock data", 0)
EmptyBatchError(i) == Msg("Failed to generate batch, try a different description", i + 1)

\* part_003:107-111: the single-call path wraps whatever it caught.
SingleFailure(error) == Msg("Mock data generation failed:", 0) \o error

\* The wrapper of the batch loop losing what the batch threw.
BatchFailureGeneric(i, error) == Msg("Failed to generate batch:", i + 1)

\* part_003:236-239: the batch loop wraps whatever a batch threw.
BatchFailure(i, error) == Msg("Failed to generate batch:", i + 1) \o error

-----------------------------------------------------------------------------
(* Rows *)

\* A row is its cells in key insertion order.
Cell(k, v) == [k |-> k, v |-> v]
Keys(row) == [j \in 1..Len(row) |-> row[j].k]
KeySet(row) == {row[j].k : j \in 1..Len(row)}

\* What the model emits in `data`: strings.  A string is the text of an
\* object with the given keys, or text that is no JSON.
ObjText(keys) == [json |-> TRUE, keys |-> keys]
RawText == [json |-> FALSE, keys |-> <<>>]
EmitShapes == {ObjText(<<"a">>), ObjText(<<"a", "b">>), RawText}
FieldChoices == {<<"a">>, <<"a", "b">>}

\* part_003:92-99, :194-201: JSON.parse with the { value: jsonStr } fallback.
ParseRow(str) ==
    IF str.json
    THEN [j \in 1..Len(str.keys) |-> Cell(str.keys[j], "v")]
    ELSE <<Cell("value", "raw")>>
ParseAll(data) == [j \in 1..Len(data) |-> ParseRow(data[j])]

\* Object.keys(parsed[0] || {})
FirstKeys(parsed) == IF Len(parsed) = 0 THEN <<>> ELSE Keys(parsed[1])

\* part_003:210: the test that decides whether a later batch is normalised.
FieldMismatch(currentFields, fields) ==
    \/ Len(currentFields) # Len(fields)
    \/ ~ \A j \in 1..Len(currentFields) : currentFields[j] \in Range(fields)

\* part_003:214-218: add the missing fields, in the order of `fields`.
RECURSIVE AddMissing(_, _, _)
AddMissing(row, fields, j) ==
    IF j > Len(fields) THEN row
    ELSE AddMissing(IF fields[j] \in KeySet(row) THEN row
                    ELSE Append(row, Cell(fields[j], "null")),
                    fields, j + 1)

\* part_003:220-224: delete the keys that are no field.
RemoveExtra(row, fields) ==
    LET keep(c) == c.k \in Range(fields) IN SelectSeq(row, keep)

NormalizeRow(row, fields) == RemoveExtra(AddMissing(row, fields, 1), fields)

\* part_003:204-227 for a batch after the first.
Reconcile(parsed, fields) ==
    IF FieldMismatch(FirstKeys(parsed), fields)
    THEN [j \in 1..Len(parsed) |-> NormalizeRow(parsed[j], fields)]
    ELSE parsed

\* What one model call can answer: the field names and n strings, the first
\* of one shape and the others of another.
EmitData(n, first, rest) == [j \in 1..n |-> IF j = 1 THEN first ELSE rest]
ModelObject(fields, data) == [fields |-> fields, data |-> data]
ArbitraryObjects(size) ==
    {ModelObject(f, EmitData(n, first, rest)) :
        f \in FieldChoices, n \in {0, 1, size},
        first \in EmitShapes, rest \in EmitShapes}
ExpectedObject(size, fields) ==
    ModelObject(fields, EmitData(size, ObjText(fields), ObjText(fields)))

-----------------------------------------------------------------------------
(* Frames *)

NoGen ==
    [active |-> FALSE, rows |-> 0, rowCount |-> 0, batched |-> FALSE,
     batchSize |-> 0, batches |-> 0, i |-> 0, retryCount |-> 0,
     allData |-> <<>>, fields |-> <<>>, firstLen |-> 0, lastError |-> <<>>]

NoOut == [status |-> "none", data |-> <<>>, fields |-> <<>>, err |-> <<>>]
OkOut(data, fields) ==
    [status |-> "ok", data |-> data, fields |-> fields, err |-> <<>>]
ErrOut(err) == [status |-> "error", data |-> <<>>, fields |-> <<>>, err |-> err]

\* The result of fetchRealData: n rows and the label of their source.
NoResult == [status |-> "none", n |-> 0, source |-> ""]
RealOk(n, source) == [status |-> "ok", n |-> n, source |-> source]
RealError == [status |-> "error", n |-> 0, source |-> ""]

\* classified: what became of the classification call ("none": not issued);
\* intent: where the intent came from; contacted: the external sources
\* fetched so far, in order, with the outcome of each.
NoReal ==
    [active |-> FALSE, rows |-> 0, classified |-> "none", intent |-> "none",
     category |-> "none", contacted |-> <<>>, result |-> NoResult]
\* The prompt of a model call: how many leading characters of the user's
\* prompt it carries, whether "..." follows them, the number of rows it asks
\* for and whether it spells out the answer format ("Return as: ...").
PromptText(user, ellipsis, n, format) ==
    [user |-> user, ellipsis |-> ellipsis, rows |-> n, format |-> format]
NoPrompt == PromptText(0, FALSE, 0, FALSE)

\* prompt.length and prompt.substring(0, end).length
length(long) == IF long THEN LongPromptChars ELSE ShortPromptChars
substring(len, end) == Min(len, end)

CurrentBatchSizeFull(g) ==
    IF g.batched THEN g.batchSize ELSE g.rowCount

\* part_003:128
CurrentBatchSize(g) ==
    IF g.batched THEN Min(g.batchSize, g.rowCount - g.i * g.batchSize)
    ELSE g.rowCount

\* part_003:80-83 (single call) and part_003:145-161 (attempt of a batch)
promptTextAlwaysFull(g, long) ==
    PromptText(length(long), FALSE, CurrentBatchSize(g), TRUE)

promptText(g, long) ==
    IF ~g.batched \/ g.retryCount = 0
    THEN PromptText(length(long), FALSE, CurrentBatchSize(g), TRUE)
    ELSE IF g.retryCount = 1
    THEN PromptText(substring(length(long), TruncateChars), TRUE,
                    CurrentBatchSize(g), FALSE)
    ELSE PromptText(0, FALSE, CurrentBatchSize(g), FALSE)

NoCall == [kind |-> "none", timer |-> FALSE, prompt |-> NoPrompt]
\* part_003:68-85, :140-172: the call and the timer it is raced against
ModelCall(g, long) ==
    [kind |-> "model", timer |-> TRUE, prompt |-> promptText(g, long)]
\* mock-data-generator.ts:265
ClassifyCall == [kind |-> "classify", timer |-> FALSE, prompt |-> NoPrompt]
\* mock-data-generator.ts:389
ApiCall == [kind |-> "api", timer |-> FALSE, prompt |-> NoPrompt]

NoStream == [open |-> FALSE, closed |-> FALSE, i |-> 0, batches |-> 0, errs |-> 0]

NoResponse ==
    [kind |-> "none", status |-> 0, success |-> "absent", error |-> "",
     keys |-> {}, rowCount |-> 0, details |-> <<>>]
JsonResponse(status, success, error, keys, n, details) ==
    [kind |-> "json", status |-> status, success |-> success, error |-> error,
     keys |-> keys, rowCount |-> n, details |-> details]

\* part_003:56: Math.min(Math.max(1, rows || 10), 50) on the number it is given.
GeneratorRowCount(rows) ==
    Min(Max(1, OrDefault(Num(rows), DefaultRows).v), MaxRowsGenerator)

\* part_003:118-120
BatchSizeFor(long) == IF long THEN ComplexBatchSize ELSE SimpleBatchSize

GenStartAtThreshold(rows, long) ==
    LET rc == GeneratorRowCount(rows)
        batched == rc >= BatchThreshold
        size == BatchSizeFor(long)
    IN  [NoGen EXCEPT !.active = TRUE, !.rows = rows, !.rowCount = rc,
                      !.batched = batched,
                      !.batchSize = IF batched THEN size ELSE 0,
                      !.batches = IF batched THEN CeilDiv(rc, size) ELSE 0]

\* part_003:50-64, 116-128: the frame of generateMockData when it reaches its
\* first await (the credential is configured).
GenStart(rows, long) ==
    LET rc == GeneratorRowCount(rows)
        batched == rc > BatchThreshold
        size == BatchSizeFor(long)
    IN  [NoGen EXCEPT !.active = TRUE, !.rows = rows, !.rowCount = rc,
                      !.batched = batched,
                      !.batchSize = IF batched THEN size ELSE 0,
                      !.batches = IF batched THEN CeilDiv(rc, size) ELSE 0]

\* route.ts:224, :227
StreamBatches(total) == CeilDiv(total, StreamBatchSize)
StreamBatchRows(total, i) == Min(StreamBatchSize, total - i * StreamBatchSize)

-----------------------------------------------------------------------------
(* Endpoint decisions *)

\* route.ts:43, :172
PromptValid(p) == p.kind = "text"

\* route.ts:63-69: the substrings that switch a request to the mock path.
AutoDetectKeywords ==
    {"json records", "fine-tune", "llm", "training data", "instruction",
     "chatbot", "custom"}

\* route.ts:62-69
shouldUseMockData(r) ==
    r.dataType = "mock" \/ r.prompt.words \cap AutoDetectKeywords # {}

\* route.ts:35-37: the delay of the request-wide timer.
dynamicTimeout(rows) ==
    LET requestedRows == OrDefault(parseInt(rows), DefaultRows).v
    IN  IF requestedRows > 15
        THEN 25000 + CeilDiv(requestedRows, 5) * 5000
        ELSE 25000

\* The longest a mock generation can take: every attempt of it ends with its
\* own timer at the latest (part_003:69, :141, :185, :233).
LongestGenerationMs(g) ==
    IF ~g.batched THEN SingleCallTimeoutMs
    ELSE g.batches * ((maxRetries + 1) * BatchTimeoutMs + maxRetries * RetryPauseMs)
         + (g.batches - 1) * BatchPauseMs

\* clearTimeout(timeoutId): a timer that fired stays fired.
Cleared(t) == IF t = "armed" THEN "cleared" ELSE t

\* route.ts:104-117
MockErrorResponse(err) ==
    LET isTimeout == IncludesTimeout(err) \/ IncludesAborted(err)
    IN  JsonResponse(IF isTimeout THEN 504 ELSE 500, "false",
                     IF isTimeout THEN "Request Timeout" ELSE "Generation Failed",
                     {"success", "error", "details", "suggestion"}, 0, err)

\* The success response counting the rows the request asked for.
MockOkResponseRequested(out) ==
    JsonResponse(200, "true", "",
                 {"success", "data", "fields", "source", "rowCount"},
                 rowCount, <<>>)

\* route.ts:93-99
MockOkResponse(out) ==
    JsonResponse(200, "true", "",
                 {"success", "data", "fields", "source", "rowCount"},
                 Len(out.data), <<>>)

-----------------------------------------------------------------------------
(* POST /download, src/app/api/download-data/route.ts: inputs and the pure   *)
(* functions of the handler.  A string is the sequence of its characters.    *)

Quote == "\""
Comma == ","
Newline == "\n"

LowerChars == {"a", "b", "d", "t"}
UpperChars == {"A", "B"}
DigitChars == {"0", "1", "2", "3", "4", "5", "6", "7", "8", "9"}

\* String.prototype.toLowerCase on one character.
toLowerCase(c) == IF c = "A" THEN "a" ELSE IF c = "B" THEN "b" ELSE c

\* The characters /[^a-z0-9]/gi does not match.
IsAlnum(c) == c \in LowerChars \cup UpperChars \cup DigitChars

\* download-data/route.ts:13 and data-generator-form.tsx:75: the length of
\* the slice of the prompt.
StemSlice == 30

slice(str, n) == SubSeq(str, 1, Min(Len(str), n))
replaceNonAlnum(str) ==
    [j \in 1..Len(str) |-> IF IsAlnum(str[j]) THEN str[j] ELSE "-"]
lowerCased(str) == [j \in 1..Len(str) |-> toLowerCase(str[j])]

\* The stem without the slice.
sanitizedPromptNoSlice(prompt) ==
    IF prompt.kind = "missing" THEN <<"d", "a", "t", "a">>
    ELSE LET stem == lowerCased(replaceNonAlnum(prompt.s))
         IN  IF stem = <<>> THEN <<"d", "a", "t", "a">> ELSE stem

\* download-data/route.ts:11-15 and data-generator-form.tsx:73-77:
\* prompt?.slice(0, 30).replace(/[^a-z0-9]/gi, "-").toLowerCase() || "data"
\* of a prompt that is missing or a string.
sanitizedPrompt(prompt) ==
    IF prompt.kind = "missing" THEN <<"d", "a", "t", "a">>
    ELSE LET stem == lowerCased(replaceNonAlnum(slice(prompt.s, StemSlice)))
         IN  IF stem = <<>> THEN <<"d", "a", "t", "a">> ELSE stem

\* download-data/route.ts:24, :41, :56: the extension is one piece of text.
Extension(format) ==
    IF format = "json" THEN ".json"
    ELSE IF format = "csv" THEN ".csv"
    ELSE ".xlsx"

\* data-generator-form.tsx:78
ClientExtension(format) == IF format = "excel" THEN ".xlsx" ELSE "." \o format

\* JSON values of a cell.
JNull == [t |-> "null", s |-> <<>>, n |-> 0]
JStr(str) == [t |-> "str", s |-> str, n |-> 0]
JNum(n) == [t |-> "num", s |-> <<>>, n |-> n]

Digit(d) ==
    CASE d = 0 -> "0" [] d = 1 -> "1" [] d = 2 -> "2" [] d = 3 -> "3"
      [] d = 4 -> "4" [] d = 5 -> "5" [] d = 6 -> "6" [] d = 7 -> "7"
      [] d = 8 -> "8" [] d = 9 -> "9"
RECURSIVE Digits(_)
Digits(n) == IF n < 10 THEN <<Digit(n)>> ELSE Append(Digits(n \div 10), Digit(n % 10))

\* String(val) of a value that is not null.
String(val) == IF val.t = "str" THEN val.s ELSE Digits(val.n)

\* Array.prototype.join
RECURSIVE join(_, _)
join(strs, sep) ==
    IF Len(strs) = 0 THEN <<>>
    ELSE IF Len(strs) = 1 THEN strs[1]
    ELSE strs[1] \o sep \o join(Tail(strs), sep)

\* str.replace(/"/g, '""')
RECURSIVE doubleQuotes(_)
doubleQuotes(str) ==
    IF str = <<>> THEN <<>>
    ELSE (IF Head(str) = Quote THEN <<Quote, Quote>> ELSE <<Head(str)>>)
         \o doubleQuotes(Tail(str))

\* download-data/route.ts:30-36, :47-51: one value of a row.
CsvValue(val) ==
    IF val.t = "null" THEN <<Quote, Quote>>
    ELSE <<Quote>> \o doubleQuotes(String(val)) \o <<Quote>>

\* download-data/route.ts:27-39, :44-54: the header of the first row's keys,
\* then a line of each row's own values.
CsvContent(data) ==
    LET headers == join(Keys(data[1]), <<Comma>>)
        line(row) == join([c \in 1..Len(row) |-> CsvValue(row[c].v)], <<Comma>>)
        rows == [j \in 1..Len(data) |-> line(data[j])]
    IN  join(<<headers>> \o rows, <<Newline>>)

\* The download request.  data: missing (undefined or null) or an array of
\* rows; prompt: missing, a string, or a value that is no string.
DataMissing == [kind |-> "missing", rows |-> <<>>]
DataRows(rows) == [kind |-> "rows", rows |-> rows]
DlPrompt(kind, str) == [kind |-> kind, s |-> str]

KeyNames == {<<"a">>, <<"b">>, <<"a", Comma, "b">>, <<Quote, "a">>}
CellValues ==
    {JNull, JNum(12), JStr(<<>>), JStr(<<"a">>),
     JStr(<<"a", Quote, Comma, Newline, "b">>)}

\* Rows of n cells with distinct keys.
RowsOf(n) ==
    {row \in [1..n -> [k : KeyNames, v : CellValues]] :
        \A i, j \in 1..n : i # j => row[i].k # row[j].k}
DownloadRowChoices == UNION {RowsOf(n) : n \in 1..MaxCells}

\* Row sets: none, one row, or two rows of which the second has the keys of
\* the first (with one value in every cell) or is a row of one cell.
SameKeys(row, v) == [c \in 1..Len(row) |-> Cell(row[c].k, v)]
DownloadData ==
    {<<>>}
    \cup {<<row>> : row \in DownloadRowChoices}
    \cup {<<row, SameKeys(row, v)>> : row \in DownloadRowChoices, v \in CellValues}
    \cup {<<row, other>> : row \in DownloadRowChoices, other \in RowsOf(1)}

PromptChars == {"a", "A", "7", "-", " ", "é"}
Strings(n) == UNION {[1..m -> PromptChars] : m \in 0..n}
LongPrompt(n) ==
    [j \in 1..n |-> IF j % 3 = 0 THEN "A" ELSE IF j % 3 = 1 THEN "7" ELSE " "]
DownloadPrompts ==
    {DlPrompt("missing", <<>>), DlPrompt("nonstring", <<>>)}
    \cup {DlPrompt("str", str) : str \in Strings(MaxPromptLen)}
    \cup {DlPrompt("str", LongPrompt(n)) : n \in {StemSlice - 1, StemSlice, StemSlice + 1}}

PlainRow == <<Cell(<<"a">>, JStr(<<"b">>))>>

DownloadRequest(bodyOk, data, format, prompt) ==
    [bodyOk |-> bodyOk, data |-> data, format |-> format, prompt |-> prompt]

\* Every row set with a plain prompt in the two CSV formats, and every prompt
\* and format with no, empty or plain data.
DownloadRequests ==
    {DownloadRequest(TRUE, DataRows(d), f, DlPrompt("str", <<"a">>)) :
        d \in DownloadData, f \in {"csv", "excel"}}
    \cup {DownloadRequest(ok, d, f, p) :
            ok \in BOOLEAN,
            d \in {DataMissing, DataRows(<<>>), DataRows(<<PlainRow>>)},
            f \in {"json", "csv", "excel", "pdf"},
            p \in DownloadPrompts}

NoContent == [type |-> "none", rows |-> <<>>, text |-> <<>>]
\* download-data/route.ts:22: JSON.stringify(data, null, 2), kept as the rows
\* it is the text of.
JsonContent(data) == [type |-> "json", rows |-> data, text |-> <<>>]
TextContent(text) == [type |-> "csv", rows |-> <<>>, text |-> text]

NoDownloadResponse ==
    [kind |-> "none", status |-> 0, error |-> "", content |-> NoContent,
     contentType |-> "", filename |-> <<>>]
\* download-data/route.ts:8, :67
DownloadError(status, error) ==
    [NoDownloadResponse EXCEPT !.kind = "json", !.status = status,
                               !.error = error]
\* download-data/route.ts:59-64
FileResponse(content, contentType, filename) ==
    [kind |-> "file", status |-> 200, error |-> "", content |-> content,
     contentType |-> contentType, filename |-> filename]

NoDownload ==
    [pc |-> "idle",
     req |-> DownloadRequest(FALSE, DataMissing, "json", DlPrompt("missing", <<>>)),
     response |-> NoDownloadResponse, saved |-> <<>>]

\* The test without its length check.
NoDataOnlyMissing(data) == data.kind = "missing"

\* download-data/route.ts:7: !data || data.length === 0
NoData(data) == data.kind = "missing" \/ Len(data.rows) = 0

-----------------------------------------------------------------------------
(* Frames outside the request *)

NoObs == [calls |-> 0, stale |-> 0, abandoned |-> 0, late |-> "none"]
\* fetchWeatherData: the rows asked for, one lookup per city of the slice and
\* what the call returned.
NoWeather ==
    [pc |-> "idle", rows |-> 0, lookups |-> <<>>,
     result |-> [status |-> "none", data |-> <<>>, source |-> ""]]
\* A call of fallbackCategorization: its prompt and what it returned.
NoHeuristic ==
    [pc |-> "idle", prompt |-> "",
     result |-> [category |-> "", keywords |-> <<>>]]
\* The locals of one request: of POST (route.ts:26-38), of generateMockData
\* and of generateMockDataInBatches (part_003:116-135).
NoPeer ==
    [pc |-> "idle", long |-> FALSE, gen |-> NoGen, call |-> NoCall,
     genOut |-> NoOut, response |-> NoResponse]
PeerIds == {1, 2}
NoPeers == [k \in PeerIds |-> NoPeer]

-----------------------------------------------------------------------------
(* The state after construction: no request yet *)

Init ==
    /\ pc = "idle"
    /\ req = NoRequest
    /\ apiKey = FALSE
    /\ timeoutId = "null"
    /\ aborted = FALSE
    /\ rowCount = 0
    /\ gen = NoGen
    /\ genOut = NoOut
    /\ real = NoReal
    /\ call = NoCall
    /\ response = NoResponse
    /\ events = <<>>
    /\ stream = NoStream
    /\ invoked = {}
    /\ dl = NoDownload
    /\ obs = NoObs
    /\ wx = NoWeather
    /\ kw = NoHeuristic
    /\ peers = NoPeers

-----------------------------------------------------------------------------
(* fetchRealData, mock-data-generator.ts:258-329 *)

\* mock-data-generator.ts:332-374: the category the keyword heuristic gives.
fallbackCategorization(p) ==
    IF p.words \cap {"stock", "finance", "market", "crypto", "bitcoin"} # {}
    THEN IF p.words \cap {"crypto", "bitcoin"} # {} THEN "crypto" ELSE "finance"
    ELSE IF p.words \cap {"weather", "temperature", "climate"} # {}
    THEN "weather"
    ELSE IF p.words \cap {"news", "article", "headline"} # {}
    THEN "news"
    ELSE IF p.words \cap {"sport", "game", "team", "player"} # {}
    THEN "sports"
    ELSE "general"

\* mock-data-generator.ts:269: the categories the classification call is
\* taken to answer with, of the seventeen of its schema.
AICategories == {"crypto", "general"}

\* mock-data-generator.ts:290-323: the shape of the adapter a category is
\* dispatched to.  "single": one fetch, then the payload is mapped
\* (fetchFinanceData, fetchCryptoData); "general": the chain of fetchGeneralData.
SingleCallCategories == {"finance", "crypto"}
Adapter(category) ==
    CASE category \in SingleCallCategories -> "single"
      [] category = "general" -> "general"

\* The source label of a single-call adapter (mock-data-generator.ts:411, :518).
SingleSource(category) == "CoinGecko API"

\* mock-data-generator.ts:1107-1131: the generic sources in their order, and
\* how many rows the transform of each makes of a payload of m items.
GeneralSources == <<"JSON Placeholder", "Random User API">>
Transform(source, m, rows) ==
    IF source = "JSON Placeholder" THEN Min(m, rows)   \* data.slice(0, rows).map
    ELSE m                                             \* data.results?.map || []

\* A source contacted: its outcome and, when it answered successfully, the
\* number of items of its payload.
Contact(source) == [source |-> source, outcome |-> "pending", items |-> 0]
Settle(contacted, outcome, m) ==
    [contacted EXCEPT ![Len(contacted)].outcome = outcome,
                      ![Len(contacted)].items = IF outcome = "ok" THEN m ELSE 0]

\* mock-data-generator.ts:289-323: the switch on intent.category, up to the
\* first await of the adapter.
Dispatch(r, origin, category) ==
    /\ real' = [r EXCEPT !.intent = origin, !.category = category,
                         !.contacted =
                            <<Contact(IF Adapter(category) = "single"
                                      THEN SingleSource(category)
                                      ELSE GeneralSources[1])>>]
    /\ call' = ApiCall
    /\ pc' = "fetch"

\* mock-data-generator.ts:258-287: up to the first await.  With a credential
\* the classification call is awaited; without one the heuristic gives the
\* intent at once and the adapter's fetch is awaited.
EnterReal(rows) ==
    /\ invoked' = invoked \cup {"real"}
    /\ IF apiKey
       THEN /\ real' = [NoReal EXCEPT !.active = TRUE, !.rows = rows,
                                      !.classified = "pending"]
            /\ call' = ClassifyCall
            /\ pc' = "classify"
       ELSE Dispatch([NoReal EXCEPT !.active = TRUE, !.rows = rows],
                     "fallback", fallbackCategorization(req.prompt))

\* route.ts:123-128
RealOkResponse(result) ==
    JsonResponse(200, "true", "", {"success", "data", "source", "rowCount"},
                 result.n, <<>>)

\* fetchRealData settles with `result`, its frame being r: the continuation of
\* the caller, route.ts:121-141 (POST) or :257-276 and :195-199 (stream).
RealReturns(r, result) ==
    /\ real' = [r EXCEPT !.active = FALSE, !.result = result]
    /\ call' = NoCall
    /\ pc' = "done"
    /\ IF req.streaming
       THEN /\ events' = events \o <<IF result.status = "ok" THEN "data"
                                     ELSE "error", "completed">>
            /\ stream' = [stream EXCEPT !.closed = TRUE]
            /\ UNCHANGED <<response, timeoutId>>
       ELSE /\ timeoutId' = Cleared(timeoutId)
            /\ response' =
                 IF result.status = "ok"
                 THEN RealOkResponse(result)
                 ELSE JsonResponse(500, "false", "Real Data Fetch Failed",
                                   {"success", "error", "details", "suggestion"}, 0,
                                   Msg("Failed to fetch real data from sources", 0))
            /\ UNCHANGED <<events, stream>>

\* The classification call raising to the caller of fetchRealData.
ClassifyRejectRaises ==
    /\ UNCHANGED <<obs, auxVars>>
    /\ pc = "classify"
    /\ RealReturns([real EXCEPT !.classified = "failed"], RealError)
    /\ UNCHANGED <<req, apiKey, aborted, rowCount, gen, genOut, invoked>>

\* mock-data-generator.ts:265-281 then :289-323: the classification call
\* answers with a category of its schema.
ClassifyRespond ==
    /\ UNCHANGED <<obs, auxVars>>
    /\ pc = "classify"
    /\ \E category \in AICategories :
          Dispatch([real EXCEPT !.classified = "answered"], "ai", category)
    /\ UNCHANGED <<req, apiKey, timeoutId, aborted, rowCount, gen, genOut,
                   response, events, stream, invoked>>

\* mock-data-generator.ts:282-285 then :289-323: the classification call
\* fails, the heuristic gives the intent.
ClassifyReject ==
    /\ UNCHANGED <<obs, auxVars>>
    /\ pc = "classify"
    /\ Dispatch([real EXCEPT !.classified = "failed"], "fallback",
                fallbackCategorization(req.prompt))
    /\ UNCHANGED <<req, apiKey, timeoutId, aborted, rowCount, gen, genOut,
                   response, events, stream, invoked>>

\* mock-data-generator.ts:389-413, :492-520 (the single-call adapters) and
\* :325-328: the fetch settles.  "ok": the external API answers with m items
\* and the adapter keeps the first `rows`; "notOk": it answers with an error
\* status; "reject": the fetch rejects.  Either failure is rethrown by
\* fetchRealData.
FetchSettles ==
    /\ UNCHANGED <<obs, auxVars>>
    /\ pc = "fetch"
    /\ Adapter(real.category) = "single"
    /\ \E outcome \in {"ok", "notOk", "reject"}, m \in 0..MaxPayload :
          LET r == [real EXCEPT !.contacted = Settle(@, outcome, m)]
          IN  RealReturns(r, IF outcome = "ok"
                             THEN RealOk(Min(m, real.rows),
                                         SingleSource(real.category))
                             ELSE RealError)
    /\ UNCHANGED <<req, apiKey, aborted, rowCount, gen, genOut, invoked>>

\* The loop of fetchGeneralData returning what the last source contacted gave,
\* whatever the earlier ones did.
GeneralStepLastWins(r, k, outcome, m) ==
    IF k < Len(GeneralSources)
    THEN /\ real' = [r EXCEPT !.contacted = Append(@, Contact(GeneralSources[k + 1]))]
         /\ UNCHANGED <<pc, call, response, timeoutId, events, stream>>
    ELSE RealReturns(r, IF outcome = "ok"
                        THEN RealOk(Transform(GeneralSources[k], m, r.rows),
                                    GeneralSources[k])
                        ELSE RealError)

\* mock-data-generator.ts:1134-1155 and :325-328: source k settled with
\* `outcome`, r being the frame that records it.  A successful source ends the
\* loop; after any other outcome the next source is fetched, and after the
\* last one the error is rethrown up to the caller of fetchRealData.
GeneralStep(r, k, outcome, m) ==
    IF outcome = "ok"
    THEN RealReturns(r, RealOk(Transform(GeneralSources[k], m, r.rows),
                               GeneralSources[k]))
    ELSE IF k < Len(GeneralSources)
    THEN /\ real' = [r EXCEPT !.contacted = Append(@, Contact(GeneralSources[k + 1]))]
         /\ UNCHANGED <<pc, call, response, timeoutId, events, stream>>
    ELSE RealReturns(r, RealError)

\* mock-data-generator.ts:1136-1149: the fetch of the current generic source
\* settles.  "ok": it answers successfully with m items; "notOk": it answers
\* with an error status; "reject": the fetch rejects; "badBody": it answers
\* successfully but reading or mapping the body throws.
GeneralSettles ==
    /\ UNCHANGED <<obs, auxVars>>
    /\ pc = "fetch"
    /\ Adapter(real.category) = "general"
    /\ \E outcome \in {"ok", "notOk", "reject", "badBody"}, m \in 0..MaxPayload :
          GeneralStep([real EXCEPT !.contacted = Settle(@, outcome, m)],
                      Len(real.contacted), outcome, m)
    /\ UNCHANGED <<req, apiKey, aborted, rowCount, gen, genOut, invoked>>

-----------------------------------------------------------------------------
(* generateMockData and its callers *)

Repeat(x, n) == [j \in 1..n |-> x]

\* route.ts:226-253 from iteration i on, the credential being configured:
\* the next generateMockData call runs to its await, or the loop is over and
\* handleStreamingRequest (route.ts:195-199) completes and closes the stream.
StreamLoop(i, evs, errs, g) ==
    IF i >= stream.batches
    THEN /\ events' = evs \o <<"completed">>
         /\ stream' = [stream EXCEPT !.i = i, !.errs = errs, !.closed = TRUE]
         /\ gen' = g
         /\ call' = NoCall
         /\ pc' = "done"
    ELSE /\ events' = evs
         /\ stream' = [stream EXCEPT !.i = i, !.errs = errs]
         /\ gen' = GenStart(StreamBatchRows(rowCount, i), req.prompt.long)
         /\ call' = ModelCall(GenStart(StreamBatchRows(rowCount, i),
                                       req.prompt.long), req.prompt.long)
         /\ pc' = "mockCall"

\* generateMockData settles with `out`, its frame being g: the continuation of
\* the caller, route.ts:92-118 (POST) or route.ts:230-252 (stream).
MockReturns(out, g) ==
    /\ genOut' = out
    /\ IF req.streaming
       THEN /\ UNCHANGED <<response, timeoutId>>
            /\ IF out.status = "ok"
               THEN /\ events' = events \o <<"batch">>
                    /\ gen' = g
                    /\ call' = NoCall
                    /\ pc' = "streamDelay"
                    /\ UNCHANGED stream
               ELSE StreamLoop(stream.i + 1, events \o <<"batch_error">>,
                               stream.errs + 1, g)
       ELSE /\ timeoutId' = Cleared(timeoutId)
            /\ response' = IF out.status = "ok" THEN MockOkResponse(out)
                           ELSE MockErrorResponse(out.err)
            /\ gen' = g
            /\ call' = NoCall
            /\ pc' = "done"
            /\ UNCHANGED <<events, stream>>

\* generateMockDataInBatches goes on to another await.
Continue(g, at, c) ==
    /\ gen' = g
    /\ pc' = at
    /\ call' = c
    /\ UNCHANGED <<genOut, response, timeoutId, events, stream>>

Returned(g) == [g EXCEPT !.active = FALSE]

\* Where generateMockData stands after an attempt: its frame g, the await it
\* is at or "return", and what it returned or threw.
Outcome(g, at, out) == [g |-> g, at |-> at, out |-> out]

\* part_003:85-104 (single call) and part_003:172-234, :244-247 (a batch):
\* the model answered the attempt of frame g with `object` before the timer.
AttemptOk(g, object) ==
    LET parsed == ParseAll(object.data) IN
    IF ~g.batched
    THEN IF Len(object.data) = 0
         THEN Outcome(Returned([g EXCEPT !.lastError = EmptyDataError]),
                      "return", ErrOut(SingleFailure(EmptyDataError)))
         ELSE Outcome(Returned(g), "return", OkOut(parsed, object.fields))
    ELSE IF Len(object.data) = 0
         THEN Outcome(Returned([g EXCEPT !.lastError = EmptyBatchError(g.i)]),
                      "return",
                      ErrOut(BatchFailure(g.i, EmptyBatchError(g.i))))
         ELSE LET fields == IF g.i = 0 THEN object.fields ELSE g.fields
                  batchData == IF g.i = 0 THEN parsed
                               ELSE Reconcile(parsed, g.fields)
                  h == [g EXCEPT !.fields = fields,
                                 !.allData = g.allData \o batchData,
                                 !.firstLen = IF g.i = 0 THEN Len(parsed) ELSE @]
              IN  IF g.i < g.batches - 1
                  THEN Outcome(h, "batchDelay", NoOut)
                  ELSE Outcome(Returned(h), "return", OkOut(h.allData, h.fields))

\* part_003:105-112 (single call) and part_003:176-186, :236-239 (a batch):
\* the attempt of frame g failed with `error`.
AttemptError(g, error) ==
    IF ~g.batched
    THEN Outcome(Returned([g EXCEPT !.lastError = error]), "return",
                 ErrOut(SingleFailure(error)))
    ELSE LET h == [g EXCEPT !.retryCount = @ + 1]
         IN  IF h.retryCount > maxRetries
             THEN Outcome(Returned([h EXCEPT !.lastError = error]), "return",
                          ErrOut(BatchFailure(g.i, error)))
             ELSE Outcome(h, "retryWait", NoOut)

\* The request goes on from the outcome of its attempt.
Proceed(o) ==
    IF o.at = "return" THEN MockReturns(o.out, o.g)
    ELSE Continue(o.g, o.at, NoCall)

\* The attempt of the request under way succeeds, fails.
AttemptSucceeds(object) == Proceed(AttemptOk(gen, object))

AttemptFailsOneMore(error) ==
    IF ~gen.batched
    THEN MockReturns(ErrOut(SingleFailure(error)),
                     Returned([gen EXCEPT !.lastError = error]))
    ELSE LET g == [gen EXCEPT !.retryCount = @ + 1]
         IN  IF g.retryCount > maxRetries + 1
             THEN MockReturns(ErrOut(BatchFailure(gen.i, error)),
                              Returned([g EXCEPT !.lastError = error]))
             ELSE Continue(g, "retryWait", NoCall)

AttemptFails(error) == Proceed(AttemptError(gen, error))

BatchIndex == IF req.streaming THEN stream.i ELSE gen.i
MayFail == ~req.streaming \/ stream.errs < MaxStreamErrors

\* The objects the model may answer the call in flight with.
Responses ==
    LET size == CurrentBatchSize(gen)
        all == IF BatchIndex < DivergentBatches
               THEN ArbitraryObjects(size)
               ELSE {ExpectedObject(size, IF gen.batched /\ gen.i > 0
                                          THEN gen.fields ELSE <<"a">>)}
    IN  {o \in all : Len(o.data) > 0 \/ MayFail}

\* The model call resolves with one of `objects`.
ModelAnswers(objects) ==
    /\ pc = "mockCall"
    /\ \E object \in objects : AttemptSucceeds(object)
    /\ UNCHANGED <<req, apiKey, aborted, rowCount, real, invoked>>

ModelRespondStep == ModelAnswers(Responses)

\* The model call rejects.
ModelRejectStep ==
    /\ pc = "mockCall"
    /\ MayFail
    /\ \E error \in ProviderErrors : AttemptFails(error)
    /\ UNCHANGED <<req, apiKey, aborted, rowCount, real, invoked>>

\* part_003:68-70, :140-142: the timer raced against the call fires first.
CallTimeoutStep ==
    /\ pc = "mockCall"
    /\ call.timer
    /\ MayFail
    /\ AttemptFails(IF gen.batched THEN BatchTimeoutError(gen.i)
                    ELSE SingleTimeoutError)
    /\ UNCHANGED <<req, apiKey, aborted, rowCount, real, invoked>>

\* part_003:185 then :137-172: the pause before a retry is over, the next
\* attempt of the same batch is issued.
RetryWakeStep ==
    /\ pc = "retryWait"
    /\ Continue(gen, "mockCall", ModelCall(gen, req.prompt.long))
    /\ UNCHANGED <<req, apiKey, aborted, rowCount, real, invoked>>

\* part_003:232-234 then :127-172: the pause between batches is over, the
\* first attempt of the next batch is issued.
BatchDelayWakeStep ==
    /\ pc = "batchDelay"
    /\ LET g == [gen EXCEPT !.i = @ + 1, !.retryCount = 0]
       IN  Continue(g, "mockCall", ModelCall(g, req.prompt.long))
    /\ UNCHANGED <<req, apiKey, aborted, rowCount, real, invoked>>

\* route.ts:243 then :226-230: the pause after a streamed batch is over.
StreamDelayWake ==
    /\ UNCHANGED <<obs, auxVars>>
    /\ pc = "streamDelay"
    /\ StreamLoop(stream.i + 1, events, stream.errs, gen)
    /\ UNCHANGED <<req, apiKey, timeoutId, aborted, rowCount, genOut, real,
                   response, invoked>>

-----------------------------------------------------------------------------
(* POST /generate, route.ts *)

\* route.ts:17-30, :167-168: a request arrives and its body is awaited.
POST ==
    /\ UNCHANGED <<obs, auxVars>>
    /\ pc = "idle"
    /\ \E r \in Requests, key \in BOOLEAN :
          /\ req' = r
          /\ apiKey' = key
    /\ pc' = "json"
    /\ UNCHANGED <<timeoutId, aborted, rowCount, gen, genOut, real, call,
                   response, events, stream, invoked>>

Answer(r) ==
    /\ response' = r
    /\ pc' = "done"
    /\ UNCHANGED <<gen, genOut, real, call, invoked>>

\* route.ts:30-142 and the catch at :143-163, single-response mode: from the
\* parsed body to the first await of the generation, or to an early response.
PostBodyStep ==
    /\ pc = "json"
    /\ ~req.streaming
    /\ UNCHANGED <<req, apiKey, aborted, events, stream>>
    /\ IF ~req.bodyOk
       THEN \* request.json() threw a SyntaxError; timeoutId is still null
            /\ Answer(JsonResponse(400, "false", "Invalid Request Format",
                                   {"success", "error", "details", "suggestion"},
                                   0, Msg("Request body must be valid JSON", 0)))
            /\ UNCHANGED <<timeoutId, rowCount>>
       ELSE IF ~PromptValid(req.prompt)
       THEN /\ Answer(JsonResponse(400, "absent",
                                   "Please provide a valid data description",
                                   {"error", "details"}, 0,
                                   Msg("Prompt is required", 0)))
            /\ timeoutId' = "cleared"
            /\ UNCHANGED rowCount
       ELSE LET n == ClampRows(req.rows, MaxRowsSingle) IN
            IF n.nan
            THEN /\ Answer(JsonResponse(400, "absent", "Invalid row count",
                                        {"error", "details"}, 0,
                                        Msg("Rows must be a valid number", 0)))
                 /\ timeoutId' = "cleared"
                 /\ UNCHANGED rowCount
            ELSE /\ rowCount' = n.v
                 /\ IF shouldUseMockData(req)
                    THEN IF ~apiKey
                         THEN /\ Answer(JsonResponse(500, "absent",
                                           "API Configuration Error",
                                           {"error", "details", "solution"}, 0,
                                           ConfigError))
                              /\ timeoutId' = "cleared"
                         ELSE /\ timeoutId' = "armed"
                              /\ invoked' = invoked \cup {"mock"}
                              /\ gen' = GenStart(n.v, req.prompt.long)
                              /\ call' = ModelCall(GenStart(n.v, req.prompt.long),
                                                   req.prompt.long)
                              /\ pc' = "mockCall"
                              /\ UNCHANGED <<genOut, real, response>>
                    ELSE /\ timeoutId' = "armed"
                         /\ EnterReal(n.v)
                         /\ UNCHANGED <<gen, genOut, response>>

StreamResponse ==
    [NoResponse EXCEPT !.kind = "stream", !.status = 200]

\* route.ts:167-219 with the synchronous start of the stream (:182-193).
StreamBody ==
    /\ UNCHANGED <<obs, auxVars>>
    /\ pc = "json"
    /\ req.streaming
    /\ UNCHANGED <<req, apiKey, aborted, timeoutId>>
    /\ IF ~req.bodyOk
       THEN \* request.json() throws outside any try: POST rejects
            /\ Answer([NoResponse EXCEPT !.kind = "exception"])
            /\ UNCHANGED <<rowCount, events, stream>>
       ELSE IF ~PromptValid(req.prompt)
       THEN /\ Answer(JsonResponse(400, "absent",
                                   "Please provide a valid data description",
                                   {"error"}, 0, <<>>))
            /\ UNCHANGED <<rowCount, events, stream>>
       ELSE LET n == ClampRows(req.rows, MaxRowsStream).v
                batches == StreamBatches(n)
            IN
            /\ rowCount' = n
            /\ response' = StreamResponse
            /\ IF req.dataType = "mock"
               THEN /\ invoked' = invoked \cup {"mock"}
                    /\ UNCHANGED real
                    /\ IF ~apiKey
                       THEN \* part_003:51-54 throws in every iteration
                            /\ events' = <<"started">>
                                           \o Repeat("batch_error", batches)
                                           \o <<"completed">>
                            /\ stream' = [NoStream EXCEPT !.open = TRUE,
                                            !.closed = TRUE, !.i = batches,
                                            !.batches = batches]
                            /\ gen' = [NoGen EXCEPT
                                         !.rows = StreamBatchRows(n, batches - 1)]
                            /\ genOut' = ErrOut(ConfigError)
                            /\ call' = NoCall
                            /\ pc' = "done"
                       ELSE /\ events' = <<"started">>
                            /\ stream' = [NoStream EXCEPT !.open = TRUE,
                                            !.batches = batches]
                            /\ gen' = GenStart(StreamBatchRows(n, 0),
                                               req.prompt.long)
                            /\ call' = ModelCall(GenStart(StreamBatchRows(n, 0),
                                                          req.prompt.long),
                                                 req.prompt.long)
                            /\ pc' = "mockCall"
                            /\ UNCHANGED genOut
               ELSE /\ events' = <<"started">>
                    /\ stream' = [NoStream EXCEPT !.open = TRUE]
                    /\ EnterReal(n)
                    /\ UNCHANGED <<gen, genOut>>

\* route.ts:38: the request-wide timer fires and calls controller.abort().
\* Nothing reads controller.signal.  The timer can fire only while the
\* request is served: during a fetchRealData of any length, or during a mock
\* generation that can outlast the timer's delay.
TimerFire ==
    /\ UNCHANGED <<obs, auxVars>>
    /\ timeoutId = "armed"
    /\ gen.active => dynamicTimeout(req.rows) < LongestGenerationMs(gen)
    /\ timeoutId' = "fired"
    /\ aborted' = TRUE
    /\ UNCHANGED <<pc, req, apiKey, rowCount, gen, genOut, real, call,
                   response, events, stream, invoked>>

-----------------------------------------------------------------------------
(* The endpoint on its own: what a generation leaves behind in the event     *)
(* loop is not followed.                                                     *)

PostBody == PostBodyStep /\ UNCHANGED <<obs, auxVars>>
ModelRespond == ModelRespondStep /\ UNCHANGED <<obs, auxVars>>
ModelReject == ModelRejectStep /\ UNCHANGED <<obs, auxVars>>
CallTimeout == CallTimeoutStep /\ UNCHANGED <<obs, auxVars>>
RetryWake == RetryWakeStep /\ UNCHANGED <<obs, auxVars>>
BatchDelayWake == BatchDelayWakeStep /\ UNCHANGED <<obs, auxVars>>

Next ==
    \/ POST
    \/ PostBody
    \/ StreamBody
    \/ TimerFire
    \/ ModelRespond
    \/ ModelReject
    \/ CallTimeout
    \/ RetryWake
    \/ BatchDelayWake
    \/ StreamDelayWake
    \/ ClassifyRespond
    \/ ClassifyReject
    \/ FetchSettles
    \/ GeneralSettles

Spec == Init /\ [][Next]_vars

-----------------------------------------------------------------------------
(* One mock generation with the timers and the calls it leaves behind.       *)
(* part_003:68-70, :140-142: no timer is ever cleared; part_003:85, :172:    *)
(* the call that lost the race is not cancelled.                             *)

BatchRequests ==
    [streaming : {FALSE}, bodyOk : {TRUE}, dataType : {"mock"},
     prompt : {Prompt("text", {}, long) : long \in BOOLEAN},
     rows : {RowsNumber(n, FALSE) : n \in {3, BatchThreshold, BatchThreshold + 1}}]

\* generateObject was called (part_003:72, :164).
Issued(o) == [o EXCEPT !.calls = @ + 1]
\* The attempt was settled by its call: its timer stays armed.
TimerLeft(o) == [o EXCEPT !.stale = Min(@ + 1, MaxLateTimers)]
\* The attempt was settled by its timer: its call stays in flight.
CallLeft(o) == [o EXCEPT !.abandoned = Min(@ + 1, MaxAbandoned)]

BatchPOST ==
    /\ pc = "idle"
    /\ \E r \in BatchRequests, key \in BOOLEAN :
          /\ req' = r
          /\ apiKey' = key
    /\ pc' = "json"
    /\ UNCHANGED <<timeoutId, aborted, rowCount, gen, genOut, real, call,
                   response, events, stream, invoked, obs, auxVars>>

PostBodyObserved ==
    /\ PostBodyStep
    /\ obs' = IF pc' = "mockCall" THEN Issued(obs) ELSE obs
    /\ UNCHANGED auxVars

\* The answers followed here: the rows asked for, or none at all.
BatchResponses ==
    LET size == CurrentBatchSize(gen)
        fields == IF gen.batched /\ gen.i > 0 THEN gen.fields ELSE <<"a">>
    IN  {ExpectedObject(size, fields), ModelObject(fields, <<>>)}

ModelRespondObserved ==
    /\ ModelAnswers(BatchResponses)
    /\ obs' = TimerLeft(obs)
    /\ UNCHANGED auxVars

ModelRejectObserved ==
    /\ ModelRejectStep
    /\ obs' = TimerLeft(obs)
    /\ UNCHANGED auxVars

CallTimeoutObserved ==
    /\ CallTimeoutStep
    /\ obs' = CallLeft(obs)
    /\ UNCHANGED auxVars

RetryWakeObserved ==
    /\ RetryWakeStep
    /\ obs' = Issued(obs)
    /\ UNCHANGED auxVars

BatchDelayWakeObserved ==
    /\ BatchDelayWakeStep
    /\ obs' = Issued(obs)
    /\ UNCHANGED auxVars

\* What the rejection of a timeoutPromise does once its race is settled:
\* Promise.race took the first settlement, nothing else awaits the promise.
LateEffectFailsAttempt ==
    IF pc = "mockCall"
    THEN /\ AttemptFails(IF gen.batched THEN BatchTimeoutError(gen.i)
                         ELSE SingleTimeoutError)
         /\ UNCHANGED <<req, apiKey, aborted, rowCount, real, invoked>>
    ELSE UNCHANGED generateVars

LateEffect == UNCHANGED generateVars

\* part_003:69, :141: the timer of an attempt fires after the attempt is over.
LateTimerFires ==
    /\ obs.stale > 0
    /\ obs' = [obs EXCEPT !.stale = @ - 1, !.late = pc]
    /\ LateEffect
    /\ UNCHANGED auxVars

\* part_003:72, :164: a call whose attempt timed out settles; its promise was
\* only awaited through the race.
AbandonedCallSettles ==
    /\ obs.abandoned > 0
    /\ obs' = [obs EXCEPT !.abandoned = @ - 1]
    /\ UNCHANGED <<generateVars, auxVars>>

BatchNext ==
    \/ BatchPOST
    \/ PostBodyObserved
    \/ ModelRespondObserved
    \/ ModelRejectObserved
    \/ CallTimeoutObserved
    \/ RetryWakeObserved
    \/ BatchDelayWakeObserved
    \/ LateTimerFires
    \/ AbandonedCallSettles

\* Every timer set fires and, as the claims about termination assume, every
\* model call returns, fails or is overtaken by its timer.
BatchFairness ==
    /\ WF_vars(PostBodyObserved)
    /\ WF_vars(ModelRespondObserved \/ ModelRejectObserved \/ CallTimeoutObserved)
    /\ WF_vars(RetryWakeObserved)
    /\ WF_vars(BatchDelayWakeObserved)

BatchSpec == Init /\ [][BatchNext]_vars /\ BatchFairness

-----------------------------------------------------------------------------
(* POST /download and the form's handleDownload *)

\* download-data/route.ts:3-5: a request arrives and its body is awaited.
DownloadPOST ==
    /\ dl.pc = "idle"
    /\ \E r \in DownloadRequests : dl' = [dl EXCEPT !.pc = "json", !.req = r]
    /\ UNCHANGED <<generateVars, obs, wx, kw, peers>>

\* download-data/route.ts:5-68: the handler from the parsed body to its
\* response.  A body that is no JSON, a prompt that has no slice method and
\* the keys of a first row that is not there throw into the catch at :65-68.
DownloadBody ==
    /\ dl.pc = "json"
    /\ LET r == dl.req
           csv == TextContent(CsvContent(r.data.rows))
           filename == sanitizedPrompt(r.prompt) \o <<Extension(r.format)>>
           answer ==
             IF ~r.bodyOk THEN DownloadError(500, "Failed to download data")
             ELSE IF NoData(r.data) THEN DownloadError(400, "No data to download")
             ELSE IF r.prompt.kind = "nonstring"
             THEN DownloadError(500, "Failed to download data")
             ELSE IF r.format # "json" /\ Len(r.data.rows) = 0
             THEN \* Object.keys(data[0]) throws
                  DownloadError(500, "Failed to download data")
             ELSE IF r.format = "json"
             THEN FileResponse(JsonContent(r.data.rows), "application/json", filename)
             ELSE IF r.format = "csv"
             THEN FileResponse(csv, "text/csv", filename)
             ELSE FileResponse(csv,
                    "application/vnd.openxmlformats-officedocument.spreadsheetml.sheet",
                    filename)
       IN  dl' = [dl EXCEPT !.pc = "responded", !.response = answer]
    /\ UNCHANGED <<generateVars, obs, wx, kw, peers>>

\* data-generator-form.tsx:69-80: the form, having sent its rows, its format
\* and its prompt, saves whatever came back under the name it derives itself.
handleDownload ==
    /\ dl.pc = "responded"
    /\ dl.req.bodyOk
    /\ dl.req.data.kind = "rows"
    /\ dl.req.prompt.kind = "str"
    /\ dl.req.format \in {"json", "csv", "excel"}
    /\ dl' = [dl EXCEPT !.pc = "saved",
                        !.saved = sanitizedPrompt(dl.req.prompt)
                                  \o <<ClientExtension(dl.req.format)>>]
    /\ UNCHANGED <<generateVars, obs, wx, kw, peers>>

DownloadNext ==
    \/ DownloadPOST
    \/ DownloadBody
    \/ handleDownload

DownloadSpec == Init /\ [][DownloadNext]_vars

-----------------------------------------------------------------------------
(* Properties *)

RowLimit == IF req.streaming THEN MaxRowsStream ELSE MaxRowsSingle
IsSuffix(tail, msg) ==
    /\ Len(tail) <= Len(msg)
    /\ SubSeq(msg, Len(msg) - Len(tail) + 1, Len(msg)) = tail
Count(seq, S) == Cardinality({j \in 1..Len(seq) : seq[j] \in S})

\* C1: a successful generateMockData has exactly the requested number of rows
\* and every row's key set equals the returned fields.
C1_MockResultExact ==
    genOut.status = "ok" =>
        /\ Len(genOut.data) = gen.rows
        /\ \A j \in 1..Len(genOut.data) :
              KeySet(genOut.data[j]) = Range(genOut.fields)

\* C2: in a batched generation every row appended by a batch after the first
\* has exactly the key set of the fields the first batch established.
C2_LaterBatchesReconciled ==
    gen.batched =>
        \A j \in (gen.firstLen + 1)..Len(gen.allData) :
            KeySet(gen.allData[j]) = Range(gen.fields)

\* C3: when the request-wide timer fired while the generation was in flight,
\* the request ends with a 504 and without data.
C3_TimeoutCancels ==
    (aborted /\ pc = "done") =>
        /\ response.status = 504
        /\ "data" \notin response.keys

\* C4: every external call in flight is raced against a timer.
C4_EveryCallGuarded == call.kind # "none" => call.timer

\* C5: when a batch has exhausted its retries generateMockData has failed with
\* an error that carries the error of the batch's last attempt, and nothing of
\* the rows of the earlier batches is returned.
C5_ExhaustedBatchFails ==
    (gen.batched /\ gen.retryCount > maxRetries) =>
        /\ genOut.status = "error"
        /\ gen.lastError # <<>>
        /\ IsSuffix(gen.lastError, genOut.err)
        /\ genOut.data = <<>>
        /\ pc = "done"
        /\ response.status \in {500, 504}
        /\ response.details = genOut.err
        /\ "data" \notin response.keys
        /\ response.rowCount = 0

\* C5 witness: the second or a later batch exhausted its retries with rows of
\* earlier batches accumulated.
C5_Witness ==
    /\ gen.batched
    /\ gen.retryCount > maxRetries
    /\ gen.i >= 1
    /\ Len(gen.allData) > 0
    /\ genOut.status = "error"

\* C6: a closed stream began with `started` and ends with its only terminal
\* event; `completed` comes after a batch or data event and no failure.
C6_StreamProtocol ==
    stream.closed =>
        /\ events[1] = "started"
        /\ Count(events, {"completed", "error"}) = 1
        /\ events[Len(events)] \in {"completed", "error"}
        /\ events[Len(events)] = "completed" =>
              /\ Count(events, {"batch", "data"}) >= 1
              /\ Count(events, {"batch_error", "error"}) = 0

\* C7: every failed request is answered with {success:false, error, details}
\* and status 400, 500 or 504, and an unparseable body with a 400.
C7_StructuredErrors ==
    LET failed == \/ response.kind = "exception"
                  \/ response.kind = "json" /\ response.status # 200
                  \/ Count(events, {"batch_error", "error"}) > 0
    IN  /\ (pc = "done" /\ failed) =>
              /\ response.kind = "json"
              /\ response.status \in {400, 500, 504}
              /\ response.success = "false"
              /\ {"success", "error", "details"} \subseteq response.keys
        /\ (pc = "done" /\ ~req.bodyOk) => response.status = 400

\* C8: a request whose prompt is missing or blank, or whose row count is not
\* numeric, is answered 400 and reaches neither generator nor fetcher.
C8_RejectsInvalid ==
    (pc \notin {"idle", "json"} /\ req.bodyOk
       /\ (~PromptValid(req.prompt) \/ req.rows.t = "str")) =>
        /\ response.status = 400
        /\ invoked = {}

\* C9: the row count handed to the mock generator or to the real-data fetcher
\* lies in 1..50 (single response) or 1..100 (streaming).
C9_RowCountWithinBound ==
    /\ invoked # {} => rowCount \in 1..RowLimit
    /\ "mock" \in invoked => gen.rows \in 1..RowLimit
    /\ "real" \in invoked => real.rows \in 1..RowLimit

\* C9 witness: a streaming request with rows = 10000 reached the fetcher with
\* the maximum of its mode.
C9_Witness ==
    /\ "real" \in invoked
    /\ req.streaming
    /\ req.rows = RowsNumber(10000, FALSE)
    /\ real.rows = MaxRowsStream

\* C10: rows = 0 gives the row count 1 and rows = 10000 the maximum.
C10_ZeroAndHuge ==
    rowCount # 0 =>
        /\ req.rows = RowsNumber(0, FALSE) => rowCount = 1
        /\ req.rows = RowsNumber(10000, FALSE) => rowCount = RowLimit

\* C11: a valid request goes to the mock generator when dataType is "mock" or
\* the prompt contains one of the five auto-detection keywords, and to the
\* real-data fetcher otherwise.
ClaimedKeywords ==
    {"fine-tune", "llm", "training data", "instruction", "chatbot"}
C11_Routing ==
    (pc \notin {"idle", "json"} /\ req.bodyOk /\ PromptValid(req.prompt)) =>
        IF req.dataType = "mock" \/ req.prompt.words \cap ClaimedKeywords # {}
        THEN /\ "real" \notin invoked
             /\ apiKey => "mock" \in invoked
        ELSE invoked = {"real"}

\* The path the endpoint chose for a valid request (route.ts:75, :189).
ServedByMock ==
    IF req.streaming THEN req.dataType = "mock" ELSE shouldUseMockData(req)

\* C12: without a credential no model call is ever in flight, and a mock-path
\* request is answered 500 with the configuration-error label.
C12_NoCredentialFails ==
    /\ ~apiKey => call.kind # "model"
    /\ (pc = "done" /\ req.bodyOk /\ PromptValid(req.prompt) /\ ~apiKey
          /\ ServedByMock) =>
           /\ response.status = 500
           /\ response.error = "API Configuration Error"

\* The error the generation ended with was raised by one of its timers
\* (part_003:69, :141).
TimedOut(g) ==
    \/ g.lastError = SingleTimeoutError
    \/ \E i \in 0..MaxRowsStream : g.lastError = BatchTimeoutError(i)

\* C13: a mock generation that failed on a timer of a model call is answered
\* 504 "Request Timeout", one that failed otherwise 500 "Generation Failed".
C13_TimeoutClassified ==
    (pc = "done" /\ genOut.status = "error") =>
        IF TimedOut(gen)
        THEN response.status = 504 /\ response.error = "Request Timeout"
        ELSE response.status = 500 /\ response.error = "Generation Failed"

\* C14: once fetchRealData is past its classification step, a classification
\* that was not issued (no credential) or that failed left the intent of the
\* keyword heuristic and the adapter of that category was called.
C14_ClassificationNeverRaises ==
    ("real" \in invoked /\ real.classified \in {"none", "failed"}) =>
        /\ real.intent = "fallback"
        /\ real.category = fallbackCategorization(req.prompt)
        /\ real.contacted # <<>>

\* C14 witness: the classification call failed, the heuristic classified a
\* "bitcoin" prompt as crypto and the adapter's fetch is in flight.
C14_Witness ==
    /\ real.classified = "failed"
    /\ real.category = "crypto"
    /\ pc = "fetch"
    /\ real.contacted[1].outcome = "pending"

Failed(c) == c.outcome \in {"notOk", "reject", "badBody"}

C16_AtMostRowCount ==
    real.result.status = "ok" => real.result.n <= real.rows

\* A reader of CSV text after RFC 4180: a field that starts with a double
\* quote runs to the closing quote, a doubled quote inside it standing for one
\* quote; outside quotes a comma ends the field and a newline the record.
RECURSIVE CsvScan(_, _, _, _, _, _, _)
CsvScan(text, i, quoted, start, field, record, records) ==
    IF i > Len(text) THEN Append(records, Append(record, field))
    ELSE LET ch == text[i] IN
         IF quoted
         THEN IF ch = Quote
              THEN IF i < Len(text) /\ text[i + 1] = Quote
                   THEN CsvScan(text, i + 2, TRUE, FALSE, Append(field, Quote),
                                record, records)
                   ELSE CsvScan(text, i + 1, FALSE, FALSE, field, record, records)
              ELSE CsvScan(text, i + 1, TRUE, FALSE, Append(field, ch),
                           record, records)
         ELSE IF ch = Quote /\ start
         THEN CsvScan(text, i + 1, TRUE, FALSE, field, record, records)
         ELSE IF ch = Comma
         THEN CsvScan(text, i + 1, FALSE, TRUE, <<>>, Append(record, field), records)
         ELSE IF ch = Newline
         THEN CsvScan(text, i + 1, FALSE, TRUE, <<>>, <<>>,
                      Append(records, Append(record, field)))
         ELSE CsvScan(text, i + 1, FALSE, FALSE, Append(field, ch), record, records)
ReadCsv(text) == CsvScan(text, 1, FALSE, TRUE, <<>>, <<>>, <<>>)

\* The strings a reader is to find: the first row's keys, then of each row
\* String(value) of every value, the empty string for null.
ExpectedRecords(data) ==
    <<Keys(data[1])>>
    \o [j \in 1..Len(data) |->
          [c \in 1..Len(data[j]) |->
              IF data[j][c].v.t = "null" THEN <<>> ELSE String(data[j][c].v)]]

\* C17: reading the CSV text of a row set back gives the header and every
\* row field for field, each record with as many fields as the first row has
\* keys.
C17_CsvRoundTrip ==
    dl.response.content.type = "csv" =>
        LET data == dl.req.data.rows
            records == ReadCsv(dl.response.content.text)
        IN  /\ records = ExpectedRecords(data)
            /\ \A j \in 1..Len(records) : Len(records[j]) = Len(data[1])

\* C18: a download request whose data is missing or an empty array is
\* answered 400 "No data to download" and gets no file.
C18_NoDataRejected ==
    (dl.pc \notin {"idle", "json"} /\ dl.req.bodyOk
       /\ (dl.req.data.kind = "missing" \/ dl.req.data.rows = <<>>)) =>
        /\ dl.response.status = 400
        /\ dl.response.error = "No data to download"
        /\ dl.response.kind # "file"
        /\ dl.response.content = NoContent
        /\ dl.response.filename = <<>>

\* C18 witness: a request with data = [] and a format was answered 400.
C18_Witness ==
    /\ dl.pc = "responded"
    /\ dl.req.bodyOk
    /\ dl.req.data = DataRows(<<>>)
    /\ dl.req.format = "csv"
    /\ dl.response.status = 400

\* What the claim makes of one character of the prompt.
StemChar(c) ==
    IF c \in {"a", "7", "-"} THEN c ELSE IF c = "A" THEN "a" ELSE "-"

\* A file name whose stem is what C19 says of the prompt and whose extension
\* is that of the format.
NameOk(name, prompt, format) ==
    LET stem == SubSeq(name, 1, Len(name) - 1)
        ext == name[Len(name)]
        empty == prompt.kind = "missing" \/ prompt.s = <<>>
    IN  /\ \A j \in 1..Len(stem) : stem[j] \in LowerChars \cup DigitChars \cup {"-"}
        /\ Len(stem) <= 30
        /\ empty => stem = <<"d", "a", "t", "a">>
        /\ ~empty =>
              /\ Len(stem) = Min(Len(prompt.s), 30)
              /\ \A j \in 1..Len(stem) : stem[j] = StemChar(prompt.s[j])
        /\ ext \in {".json", ".csv", ".xlsx"}
        /\ format = "json" => ext = ".json"
        /\ format = "csv" => ext = ".csv"
        /\ format = "excel" => ext = ".xlsx"

\* C19: the name of a downloaded file, the one the endpoint sends and the one
\* the form saves under, has the stem derived from the first 30 characters of
\* the prompt ("data" for no or an empty prompt) and the format's extension.
C19_FilenameStem ==
    /\ dl.response.kind = "file" =>
          NameOk(dl.response.filename, dl.req.prompt, dl.req.format)
    /\ dl.pc = "saved" => NameOk(dl.saved, dl.req.prompt, dl.req.format)

\* C19 witness: a prompt of 31 characters with capitals and blanks was cut to
\* a stem of 30 and the file was saved.
C19_Witness ==
    /\ dl.pc = "saved"
    /\ dl.response.kind = "file"
    /\ Len(dl.req.prompt.s) = 31
    /\ Len(dl.response.filename) = 31
    /\ dl.saved = dl.response.filename

\* C20: a success response of the single-response mode has success = true,
\* data, source and rowCount = the number of rows of data, and has `fields`
\* exactly when the mock generator served it.
C20_SuccessShape ==
    (pc = "done" /\ ~req.streaming /\ response.status = 200) =>
        /\ response.success = "true"
        /\ {"data", "source", "rowCount"} \subseteq response.keys
        /\ response.rowCount = IF "mock" \in invoked THEN Len(genOut.data)
                               ELSE real.result.n
        /\ "fields" \in response.keys <=> "mock" \in invoked

\* C20 witness: the mock generator returned another number of rows than the
\* request asked for and the response counts the rows returned.
C20_Witness ==
    /\ pc = "done"
    /\ ~req.streaming
    /\ response.status = 200
    /\ "mock" \in invoked
    /\ Len(genOut.data) # rowCount

-----------------------------------------------------------------------------
(* fallbackCategorization on the text of the prompt,                         *)
(* mock-data-generator.ts:332-383.  A string is a TLA+ string.               *)

UpperLetters == "ABCDEFGHIJKLMNOPQRSTUVWXYZ"
LowerLetters == "abcdefghijklmnopqrstuvwxyz"

charAt(str, i) == SubSeq(str, i, i)

\* String.prototype.toLowerCase
RECURSIVE toLowerCaseText(_)
toLowerCaseText(str) ==
    IF Len(str) = 0 THEN ""
    ELSE LET c == charAt(str, 1)
             up == {i \in 1..Len(UpperLetters) : charAt(UpperLetters, i) = c}
         IN  (IF up = {} THEN c ELSE charAt(LowerLetters, CHOOSE i \in up : TRUE))
             \o toLowerCaseText(SubSeq(str, 2, Len(str)))

\* String.prototype.includes
includes(str, part) ==
    \E i \in 1..(Len(str) - Len(part) + 1) :
        SubSeq(str, i, i + Len(part) - 1) = part

\* str.split(' '): the pieces between single blanks, empty ones included.
RECURSIVE SplitScan(_, _, _, _)
SplitScan(str, i, piece, pieces) ==
    IF i > Len(str) THEN Append(pieces, piece)
    ELSE IF charAt(str, i) = " "
    THEN SplitScan(str, i + 1, "", Append(pieces, piece))
    ELSE SplitScan(str, i + 1, piece \o charAt(str, i), pieces)

split(str) == SplitScan(str, 1, "", <<>>)

\* str.split(/\s+/): a run of blanks separates once; a leading or trailing
\* run leaves an empty piece at that end.  Array.prototype.filter is
\* SelectSeq.
splitWhitespace(str) ==
    LET pieces == split(str)
        n == Len(pieces)
        inner == IF n <= 2 THEN <<>>
                 ELSE LET NonEmpty(w) == w # ""
                      IN  SelectSeq(SubSeq(pieces, 2, n - 1), NonEmpty)
    IN  IF n = 1 THEN pieces
        ELSE <<pieces[1]>> \o inner \o <<pieces[n]>>

\* [...new Set(arr)]: the first occurrence of every element, in order.
RECURSIVE unique(_, _)
unique(arr, seen) ==
    IF Len(arr) = 0 THEN <<>>
    ELSE IF Head(arr) \in seen THEN unique(Tail(arr), seen)
    ELSE <<Head(arr)>> \o unique(Tail(arr), seen \cup {Head(arr)})

\* arr.slice(0, 5)
KeywordLimit == 5
firstKeywordsUnlimited(arr) == arr
firstKeywords(arr) == SubSeq(arr, 1, Min(Len(arr), KeywordLimit))

\* mock-data-generator.ts:377-383
extractKeywords(text, relevantWords) ==
    LET words == splitWhitespace(toLowerCaseText(text))
        Relevant(word) ==
            \/ \E relevant \in relevantWords : includes(word, relevant)
            \/ Len(word) > 4
    IN  firstKeywords(unique(SelectSeq(words, Relevant), {}))

HeuristicResult(category, keywords) ==
    [category |-> category, keywords |-> keywords]

fallbackCategorizationTextFinanceFirst(prompt) ==
    LET lowerPrompt == toLowerCaseText(prompt)
        has(word) == includes(lowerPrompt, word)
    IN  IF has("stock") \/ has("finance") \/ has("market")
        THEN HeuristicResult("finance", <<>>)
        ELSE IF has("crypto") \/ has("bitcoin")
        THEN HeuristicResult("crypto", <<>>)
        ELSE HeuristicResult("general", <<>>)

\* mock-data-generator.ts:332-374
fallbackCategorizationText(prompt) ==
    LET lowerPrompt == toLowerCaseText(prompt)
        has(word) == includes(lowerPrompt, word)
        LongWord(word) == Len(word) > 3
    IN  IF has("stock") \/ has("finance") \/ has("market") \/ has("crypto")
           \/ has("bitcoin")
        THEN HeuristicResult(
                 IF has("crypto") \/ has("bitcoin") THEN "crypto" ELSE "finance",
                 extractKeywords(prompt, {"stock", "finance", "market", "crypto",
                                          "bitcoin", "price", "trading"}))
        ELSE IF has("weather") \/ has("temperature") \/ has("climate")
        THEN HeuristicResult("weather",
                 extractKeywords(prompt, {"weather", "temperature", "climate",
                                          "rain", "wind", "humidity"}))
        ELSE IF has("news") \/ has("article") \/ has("headline")
        THEN HeuristicResult("news",
                 extractKeywords(prompt, {"news", "article", "headline",
                                          "breaking", "story"}))
        ELSE IF has("sport") \/ has("game") \/ has("team") \/ has("player")
        THEN HeuristicResult("sports",
                 extractKeywords(prompt, {"sport", "game", "team", "player",
                                          "score", "match"}))
        ELSE HeuristicResult("general",
                 firstKeywords(SelectSeq(split(prompt), LongWord)))

\* The prompts: up to MaxWords words of the vocabulary separated by single
\* blanks (an empty word gives two blanks in a row), and two long ones.
MaxWords == 3
Vocabulary ==
    {"", "Bitcoin", "prices", "Stock", "weather", "HEADLINES", "team",
     "rain", "data", "Marketplace"}
RECURSIVE joinWords(_)
joinWords(words) ==
    IF Len(words) = 0 THEN ""
    ELSE IF Len(words) = 1 THEN words[1]
    ELSE words[1] \o " " \o joinWords(Tail(words))
HeuristicPrompts ==
    {joinWords(words) : words \in UNION {[1..n -> Vocabulary] : n \in 1..MaxWords}}
    \cup {"Bitcoin prices versus stock exchange weather headlines",
          "daily rain rain and wind figures for seven large European cities",
          "list of famous paintings with their painters museums years",
          "bitcoin prices"}

\* fetchRealData's catch (mock-data-generator.ts:279-283) calls the heuristic.
Categorize ==
    /\ kw.pc = "idle"
    /\ \E prompt \in HeuristicPrompts :
          kw' = [pc |-> "done", prompt |-> prompt,
                 result |-> fallbackCategorizationText(prompt)]
    /\ UNCHANGED <<generateVars, dl, obs, wx, peers>>

HeuristicNext == Categorize

HeuristicSpec == Init /\ [][HeuristicNext]_vars

\* C28: the heuristic's category follows from the lower-cased prompt by the
\* fixed priority crypto, finance, weather, news, sports, general, is one of
\* these six, and at most 5 keywords are returned.
C28_HeuristicPriority ==
    kw.pc = "done" =>
        LET text == toLowerCaseText(kw.prompt)
            any(words) == \E word \in words : includes(text, word)
            expected ==
                IF any({"crypto", "bitcoin"}) THEN "crypto"
                ELSE IF any({"stock", "finance", "market"}) THEN "finance"
                ELSE IF any({"weather", "temperature", "climate"}) THEN "weather"
                ELSE IF any({"news", "article", "headline"}) THEN "news"
                ELSE IF any({"sport", "game", "team", "player"}) THEN "sports"
                ELSE "general"
        IN  /\ kw.result.category = expected
            /\ kw.result.category \in
                  {"crypto", "finance", "weather", "news", "sports", "general"}
            /\ Len(kw.result.keywords) <= 5
            /\ kw.prompt = "bitcoin prices" => kw.result.category = "crypto"

C28_Witness ==
    /\ kw.pc = "done"
    /\ includes(toLowerCaseText(kw.prompt), "stock")
    /\ includes(toLowerCaseText(kw.prompt), "weather")
    /\ kw.result.category = "crypto"
    /\ Len(kw.result.keywords) = 5

-----------------------------------------------------------------------------
(* fetchWeatherData, mock-data-generator.ts:415-454 *)

cities ==
    <<"London", "New York", "Tokyo", "Paris", "Sydney", "Dubai", "Singapore",
      "Mumbai", "Berlin", "Toronto">>

\* cities.slice(0, rows), rows >= 0
CitySlice(rows) == SubSeq(cities, 1, Min(rows, Len(cities)))

\* What a lookup can come to: the report wttr.in documents, a report whose
\* current_condition[0] lacks members, a body without current_condition, a
\* body that is no JSON, a fetch that rejects.
LookupOutcomes == {"report", "sparse", "malformed", "notJson", "reject"}

WeatherRow(city, keys, placeholder) ==
    [city |-> city, keys |-> keys, placeholder |-> placeholder]

Fulfilled(row) == [state |-> "fulfilled", row |-> row]
Rejected == [state |-> "rejected", row |-> WeatherRow("", {}, FALSE)]
Pending(city) == [state |-> "pending", row |-> WeatherRow(city, {}, FALSE)]

\* mock-data-generator.ts:421-448 without its catch
CityLookupNoCatch(city, outcome) ==
    IF outcome \in {"report", "sparse"}
    THEN Fulfilled(WeatherRow(city,
             {"city", "temperature_c", "temperature_f", "condition",
              "humidity", "wind_speed_kmph", "feels_like_c"}, FALSE))
    ELSE Rejected

\* mock-data-generator.ts:421-448: the promise of one city's callback.  A
\* member the report lacks is an own property holding undefined.
CityLookup(city, outcome) ==
    IF outcome \in {"report", "sparse"}
    THEN Fulfilled(WeatherRow(city,
             {"city", "temperature_c", "temperature_f", "condition",
              "humidity", "wind_speed_kmph", "feels_like_c"}, FALSE))
    ELSE Fulfilled(WeatherRow(city,
             {"city", "temperature_c", "temperature_f", "condition",
              "humidity", "wind_speed_kmph", "feels_like_c"}, TRUE))

\* rowCount of the endpoint, 1 or more (route.ts:52, :178)
WeatherRowInputs == {1, 3, 12}

\* mock-data-generator.ts:415-423: the map callback runs for every city of
\* the slice up to its fetch, then Promise.all is awaited.
fetchWeatherData ==
    /\ wx.pc = "idle"
    /\ \E rows \in WeatherRowInputs :
          LET sliced == CitySlice(rows) IN
          wx' = IF Len(sliced) = 0
                THEN [wx EXCEPT !.pc = "done", !.rows = rows,
                        !.result = [status |-> "ok", data |-> <<>>,
                                    source |-> "wttr.in Weather API"]]
                ELSE [wx EXCEPT !.pc = "await", !.rows = rows,
                        !.lookups = [j \in 1..Len(sliced) |-> Pending(sliced[j])]]
    /\ UNCHANGED <<generateVars, dl, obs, kw, peers>>

\* Promise.all (mock-data-generator.ts:420, :450-453): it rejects with the
\* first rejection and resolves, in the order of the promises passed, once
\* all are fulfilled.
PromiseAll(lookups) ==
    IF \E j \in 1..Len(lookups) : lookups[j].state = "rejected"
    THEN [status |-> "error", data |-> <<>>, source |-> ""]
    ELSE IF \A j \in 1..Len(lookups) : lookups[j].state = "fulfilled"
    THEN [status |-> "ok", data |-> [j \in 1..Len(lookups) |-> lookups[j].row],
          source |-> "wttr.in Weather API"]
    ELSE [status |-> "none", data |-> <<>>, source |-> ""]

\* One lookup comes to an end; fetchWeatherData goes on when Promise.all
\* settles.
LookupSettles ==
    /\ wx.pc = "await"
    /\ \E j \in 1..Len(wx.lookups), outcome \in LookupOutcomes :
          /\ wx.lookups[j].state = "pending"
          /\ LET lookups == [wx.lookups EXCEPT
                               ![j] = CityLookup(wx.lookups[j].row.city, outcome)]
                 all == PromiseAll(lookups)
             IN  wx' = [wx EXCEPT !.lookups = lookups, !.result = all,
                          !.pc = IF all.status = "none" THEN "await" ELSE "done"]
    /\ UNCHANGED <<generateVars, dl, obs, kw, peers>>

WeatherNext ==
    \/ fetchWeatherData
    \/ LookupSettles

WeatherSpec == Init /\ [][WeatherNext]_vars

\* C27: fetchWeatherData has a lookup under way for every city of the slice
\* while it waits, returns only when all have settled and never fails; it
\* returns min(rows, 10) rows in the order of the city list, each with the
\* same seven fields, a placeholder row for every city whose lookup failed.
C27_WeatherRows ==
    LET n == IF wx.rows < 10 THEN wx.rows ELSE 10 IN
    /\ wx.pc = "await" => Len(wx.lookups) = n
    /\ wx.pc = "done" =>
          /\ \A j \in 1..Len(wx.lookups) : wx.lookups[j].state # "pending"
          /\ wx.result.status = "ok"
          /\ Len(wx.result.data) = n
          /\ \A j \in 1..n :
                /\ wx.result.data[j].city = cities[j]
                /\ wx.result.data[j].keys = wx.result.data[1].keys
                /\ Cardinality(wx.result.data[j].keys) = 7

C27_Witness ==
    /\ wx.pc = "done"
    /\ wx.rows = 12
    /\ Len(wx.result.data) = 10
    /\ wx.result.data[2].placeholder
    /\ wx.result.data[10].placeholder
    /\ ~wx.result.data[1].placeholder

-----------------------------------------------------------------------------
(* Two mock requests served at the same time: the event loop runs one step   *)
(* of either request at a time.                                              *)

PeerRows == {3, BatchThreshold + 1}

\* What the model may answer the attempt of frame g with.
PeerResponses(g) ==
    {ExpectedObject(CurrentBatchSize(g), f) :
        f \in IF g.batched /\ g.i > 0 THEN {g.fields} ELSE FieldChoices}
    \cup {ModelObject(<<"a">>, <<>>)}

\* allData and fields kept in one place for all requests.
LocalsSharedRows(k) ==
    [peers[k] EXCEPT !.gen.allData = peers[1].gen.allData,
                     !.gen.fields = peers[1].gen.fields]

\* The locals a step of request k reads: those of its own calls.
Locals(k) == peers[k]

\* route.ts:92-118 after generateMockData settled, or its next await.
After(f, o) ==
    IF o.at = "return"
    THEN [f EXCEPT !.pc = "done", !.gen = o.g, !.call = NoCall,
                   !.genOut = o.out,
                   !.response = IF o.out.status = "ok" THEN MockOkResponse(o.out)
                                ELSE MockErrorResponse(o.out.err)]
    ELSE [f EXCEPT !.pc = o.at, !.gen = o.g, !.call = NoCall]

\* The steps of one request, each as the set of frames it can lead to.
Started(f) ==
    IF f.pc # "idle" THEN {}
    ELSE {[f EXCEPT !.pc = "mockCall", !.long = long,
                    !.gen = GenStart(rows, long),
                    !.call = ModelCall(GenStart(rows, long), long)] :
             rows \in PeerRows, long \in BOOLEAN}

Answered(f) ==
    IF f.pc # "mockCall" THEN {}
    ELSE {After(f, AttemptOk(f.gen, object)) : object \in PeerResponses(f.gen)}

Refused(f) ==
    IF f.pc # "mockCall" THEN {}
    ELSE {After(f, AttemptError(f.gen, error)) : error \in ProviderErrors}

Overtaken(f) ==
    IF f.pc # "mockCall" THEN {}
    ELSE {After(f, AttemptError(f.gen, IF f.gen.batched
                                       THEN BatchTimeoutError(f.gen.i)
                                       ELSE SingleTimeoutError))}

Retried(f) ==
    IF f.pc # "retryWait" THEN {}
    ELSE {[f EXCEPT !.pc = "mockCall", !.call = ModelCall(f.gen, f.long)]}

Advanced(f) ==
    IF f.pc # "batchDelay" THEN {}
    ELSE LET g == [f.gen EXCEPT !.i = @ + 1, !.retryCount = 0]
         IN  {[f EXCEPT !.pc = "mockCall", !.gen = g,
                        !.call = ModelCall(g, f.long)]}

PeerStep(k, frames) ==
    /\ \E f \in frames : peers' = [peers EXCEPT ![k] = f]
    /\ UNCHANGED <<generateVars, dl, obs, wx, kw>>

PeerPOST == \E k \in PeerIds : PeerStep(k, Started(Locals(k)))
PeerModelRespond == \E k \in PeerIds : PeerStep(k, Answered(Locals(k)))
PeerModelReject == \E k \in PeerIds : PeerStep(k, Refused(Locals(k)))
PeerCallTimeout == \E k \in PeerIds : PeerStep(k, Overtaken(Locals(k)))
PeerRetryWake == \E k \in PeerIds : PeerStep(k, Retried(Locals(k)))
PeerBatchDelayWake == \E k \in PeerIds : PeerStep(k, Advanced(Locals(k)))

ConcurrentNext ==
    \/ PeerPOST
    \/ PeerModelRespond
    \/ PeerModelReject
    \/ PeerCallTimeout
    \/ PeerRetryWake
    \/ PeerBatchDelayWake

ConcurrentSpec == Init /\ [][ConcurrentNext]_vars

\* The frames one step leads a request to when it is served alone.
Alone(f) ==
    Started(f) \cup Answered(f) \cup Refused(f) \cup Overtaken(f)
    \cup Retried(f) \cup Advanced(f)

-----------------------------------------------------------------------------
(* Batches, attempts and timers of one mock generation (BatchSpec) *)

\* The step issues a model call.
CallIssued == obs'.calls > obs.calls

\* The prompt the claim gives the attempt in flight: all of the user's
\* prompt, its first 200 characters, none of it.
AttemptPromptOk ==
    LET len == length(req.prompt.long) IN
    CASE gen.retryCount = 0 -> call.prompt.user = len
      [] gen.retryCount = 1 ->
            /\ call.prompt.user <= 200
            /\ (len <= 200 => call.prompt.user = len)
            /\ (len > 200 => call.prompt.user = 200)
      [] gen.retryCount = 2 -> call.prompt.user = 0
      [] OTHER -> FALSE

C24_EmptyBatchRetried ==
    /\ gen.batched
    /\ genOut.status = "error"
    /\ gen.lastError = EmptyBatchError(gen.i)
    => gen.retryCount >= maxRetries

\* C25 as stated: below 15 rows generateMockData issues exactly one model
\* call, without batching or retry; from 15 rows on it splits into batches.
C25_ThresholdAsStated ==
    gen.rowCount > 0 =>
        /\ gen.rowCount < BatchThreshold =>
              ~gen.batched /\ obs.calls = 1 /\ gen.retryCount = 0
        /\ gen.rowCount >= BatchThreshold => gen.batched /\ gen.batches >= 2

\* C25 amended: up to and including 15 rows generateMockData issues exactly
\* one model call, without batching or retry; above 15 rows it splits into
\* batches.
C25_Threshold ==
    gen.rowCount > 0 =>
        /\ gen.rowCount <= BatchThreshold =>
              ~gen.batched /\ obs.calls = 1 /\ gen.retryCount = 0
        /\ gen.rowCount > BatchThreshold => gen.batched /\ gen.batches >= 2

C25_Witness ==
    /\ pc = "done"
    /\ gen.rowCount = BatchThreshold
    /\ genOut.status = "error"
    /\ obs.calls = 1
    /\ obs.abandoned = 1

RECURSIVE SumOf(_, _)
SumOf(f, n) == IF n = 0 THEN 0 ELSE f[n] + SumOf(f, n - 1)

\* `sizes` splits `total` into `batches` batches of `size`: the number of
\* batches is ceil(total / size), each batch has 1..size rows, only the last
\* may have fewer than size, and together they have `total` rows.
ExactPartition(sizes, total, size, batches) ==
    /\ (batches - 1) * size < total
    /\ total <= batches * size
    /\ \A j \in 1..batches :
          /\ sizes[j] \in 1..size
          /\ j < batches => sizes[j] = size
    /\ SumOf(sizes, batches) = total

\* C26: generateMockDataInBatches splits totalRows exactly into batches of 5
\* (prompt of more than 200 characters) or 10 and asks each model call for
\* its batch's share; the streaming splitter does the same with batches of 5.
C26_ExactPartition ==
    /\ gen.batched =>
          LET sizes == [j \in 1..gen.batches |->
                          CurrentBatchSize([gen EXCEPT !.i = j - 1])]
          IN  /\ gen.batchSize = IF length(req.prompt.long) > 200 THEN 5 ELSE 10
              /\ ExactPartition(sizes, gen.rowCount, gen.batchSize, gen.batches)
              /\ pc = "mockCall" => call.prompt.rows = sizes[gen.i + 1]
    /\ req.streaming /\ stream.batches > 0 =>
          LET sizes == [j \in 1..stream.batches |->
                          StreamBatchRows(rowCount, j - 1)]
          IN  /\ ExactPartition(sizes, rowCount, 5, stream.batches)
              /\ pc = "mockCall" =>
                    /\ gen.rows = sizes[stream.i + 1]
                    /\ call.prompt.rows = sizes[stream.i + 1]

C26_Witness ==
    /\ pc = "mockCall"
    /\ gen.batched
    /\ gen.batchSize = 5
    /\ gen.i = gen.batches - 1
    /\ call.prompt.rows = 1

\* The model calls of the request that have been issued and have not settled.
InFlight == (IF call.kind = "model" THEN 1 ELSE 0) + obs.abandoned

\* C22: the batches of a generation run one after the other: a batch is
\* started only once its predecessors have appended their rows, and the
\* request never has more than one model call in flight.
C22_OneCallInFlight ==
    /\ gen.batched /\ gen.active => Len(gen.allData) >= gen.i
    /\ InFlight <= 1

\* C29: every model call settling or being overtaken by its timer, a batched
\* generation ends, after at most 3 * ceil(totalRows / batchSize) model
\* calls, and issues no model call once a batch has failed.
C29_Terminates ==
    /\ [](gen.batched =>
            /\ (gen.batches - 1) * gen.batchSize < gen.rowCount
            /\ gen.rowCount <= gen.batches * gen.batchSize
            /\ obs.calls <= 3 * gen.batches)
    /\ (gen.batched /\ gen.active) ~> (~gen.active /\ pc = "done")
    /\ [][gen.batched /\ genOut.status = "error" => ~CallIssued]_vars

C29_Witness ==
    /\ pc = "done"
    /\ gen.batched
    /\ gen.batches = 4
    /\ gen.i = 3
    /\ genOut.status = "error"
    /\ obs.calls = 3 * gen.batches

====
